---- MODULE Spec2Model ----
(***************************************************************************)
(* Voice-recording session of the mood-journal app                         *)
(* (src/components/VoiceRecorder.tsx), as a state machine.                 *)
(*                                                                         *)
(* The React state of the component, the capture device it drives and the  *)
(* asynchronous handler invocations that are still awaiting the device are *)
(* the state.  A step is one run-to-completion piece of JavaScript: the    *)
(* part of a handler up to its next await, a timer callback, or a device   *)
(* event.  A device command takes effect when it is issued and its promise *)
(* settles in a later step; the outcome (resolve / reject) is carried by   *)
(* the pending call.  A state update and the effects that depend on it     *)
(* (the duration timer of lines 204-252, the metering sampler of lines     *)
(* 136-187) are committed within the step.  Playback of the artifact, the  *)
(* two intervals that watch the player and the unmount of the component    *)
(* are part of the machine; the journal editor (JournalModal) shows,       *)
(* hides and unmounts the recorder.                                        *)
(***************************************************************************)
EXTENDS Integers, Sequences, FiniteSets, Bags, TLC

\* src/components/VoiceRecorder.tsx:31-32
MAX_DURATION == 300
WARNING_DURATION == 270

\* src/unnamed/part_002:86, 94: shortest title and content that validate.
TITLE_MIN == 3
CONTENT_MIN == 10

\* src/components/VoiceRecorder.tsx:154: a reading of -METER_RANGE dB is
\* silence, 0 dB is full scale.
METER_RANGE == 160

\* Bounds of the model.
MaxInFlight == 2     \* handler invocations awaiting the device at one time
MaxElapsed == 3      \* seconds recorded in the specification of overlapping calls
MaxTimeouts == 1     \* warning-expiry timeouts pending at one time
MaxMonitors == 1     \* completion monitors alive when playback is started
MaxSteps == 5        \* metering readings go down to -40 * MaxSteps dB

NoUri == "null"
Uris == {"file.m4a"}

VARIABLES
    visible,         \* prop visible: the recorder modal is shown
    isRecording,     \* useState, line 52
    isPaused,        \* useState, line 53
    duration,        \* useState, line 54 (elapsedSeconds)
    recordedUri,     \* useState, line 55 (the artifact's uri, NoUri when null)
    showWarning,     \* useState, line 56 (warningActive)
    hasPermission,   \* useState, line 57
    isPlaying,       \* useState, line 59
    timerOn,         \* timerRef holds a running 1 s interval
    meteringOn,      \* meteringRef holds a running 50 ms interval
    audioLevel,      \* useState, line 58, in units of 1 / METER_RANGE
    pollOn,          \* the 100 ms playback-state interval of lines 95-112 runs
    monitors,        \* running checkCompletion intervals, lines 467-474
    mounted,         \* the component is mounted
    warnTimeouts,    \* pending setTimeout(() => setShowWarning(false), 3000)
    devRecording,    \* audioRecorder.getStatus().isRecording
    devUri,          \* audioRecorder.uri
    allowsRecording, \* audio mode last configured on the device
    devPlaying,      \* audioPlayer.playing
    devMetering,     \* audioRecorder.getStatus().metering: <<dB>>, or <<>> for none
    journal,         \* JournalModal (src/unnamed/part_002): props, state, pending save
    player,          \* AudioPlayer (src/unnamed/part_001): state, device, pending toggles
    calls,           \* bag of handler invocations suspended at an await
    emitted          \* what the last step sent out: device commands, alerts, callbacks

vars == <<visible, isRecording, isPaused, duration, recordedUri, showWarning,
          hasPermission, isPlaying, timerOn, meteringOn, audioLevel, pollOn,
          monitors,
          mounted, warnTimeouts, devRecording, devUri,
          allowsRecording, devPlaying, devMetering, journal, player, calls, emitted>>

uiVars == <<isRecording, isPaused, duration, recordedUri, showWarning>>
devVars == <<devRecording, devUri, allowsRecording, devPlaying>>
\* What the effects on [isRecording, isPaused] maintain.
effectVars == <<timerOn, meteringOn, audioLevel>>
restVars == <<hasPermission, pollOn, monitors, mounted, devMetering, journal, player>>

\* What status.metering can be: a level in dB, from below silence to above
\* full scale, or nothing.
Readings == {<<40 * k>> : k \in -MaxSteps..1} \cup {<<>>}

\* A text of the journal form: len characters, with pad blanks around them.
Texts(min) == [pad : {0, 1}, len : {0, min - 1, min}]
Empty == [pad |-> 0, len |-> 0]

\* String.prototype.trim.
Trim(text) == [text EXCEPT !.pad = 0]

\* The mood levels the form is driven with (MOOD_OPTIONS, lines 35-41), 0
\* for null.
NoMood == 0
Moods == {1, 5}

\* The date prop, "" for null.
NoDate == ""
Dates == {"2025-01-15"}

NoErrors == [title |-> "", content |-> "", mood |-> ""]

\* Outcome of a device promise.
Outcomes == {"ok", "err"}

\* Outcome of requestRecordingPermissionsAsync: the platform's answer, or a
\* rejection.
Permissions == {"granted", "denied", "err"}

\* A suspended invocation: handler, the await it is suspended at, the outcome
\* its promise will settle with.
Call(op, at, res) == [op |-> op, at |-> at, res |-> res]

Pending(c) == BagIn(c, calls)
Without(c) == calls (-) SetToBag({c})
With(bag, c) == bag (+) SetToBag({c})
InFlight == BagCardinality(calls)

\* How the user drives the handlers: overlapping invocations (a control is
\* pressed while earlier invocations still await the device) or one at a time.
Overlapping == InFlight < MaxInFlight
Sequential == calls = EmptyBag

\* Mutant of TimerEffect: the interval is kept while the session is paused.
TimerEffectIgnoresPause(rec, paused) == rec

\* The duration timer effect, lines 204-252: the interval exists exactly while
\* isRecording && !isPaused after the commit.
TimerEffect(rec, paused) == rec /\ ~paused

\* Mutant of MeteringEffect: the sampler is kept while the session is paused.
MeteringEffectIgnoresPause(rec, paused) == rec

\* The metering effect, lines 136-187: the 50 ms sampler exists exactly while
\* isRecording && !isPaused after the commit.
MeteringEffect(rec, paused) == rec /\ ~paused

\* The session states of the specification, read off the component state.
Recording == isRecording /\ ~isPaused
Paused == isRecording /\ isPaused
Stopped == ~isRecording /\ recordedUri # NoUri
Idle == ~isRecording /\ ~isPaused /\ recordedUri = NoUri

TypeOK ==
    /\ visible \in BOOLEAN /\ isRecording \in BOOLEAN /\ isPaused \in BOOLEAN
    /\ duration \in 0..MAX_DURATION
    /\ recordedUri \in Uris \cup {NoUri}
    /\ showWarning \in BOOLEAN /\ hasPermission \in BOOLEAN /\ isPlaying \in BOOLEAN
    /\ timerOn \in BOOLEAN /\ warnTimeouts \in 0..MaxTimeouts + 1
    /\ meteringOn \in BOOLEAN /\ pollOn \in BOOLEAN /\ mounted \in BOOLEAN
    /\ audioLevel \in 0..METER_RANGE
    /\ monitors \in 0..MaxMonitors + MaxInFlight
    /\ devRecording \in BOOLEAN /\ devUri \in Uris \cup {NoUri}
    /\ allowsRecording \in BOOLEAN /\ devPlaying \in BOOLEAN
    /\ devMetering \in Readings
    /\ journal.visible \in BOOLEAN /\ journal.isSaving \in BOOLEAN
    /\ journal.mode \in {"add", "edit"} /\ journal.date \in Dates \cup {NoDate}
    /\ journal.title \in Texts(TITLE_MIN) /\ journal.content \in Texts(CONTENT_MIN)
    /\ journal.selectedMood \in Moods \cup {NoMood}
    /\ Len(journal.audioAttachment) <= 1 /\ Len(journal.request) <= 1
    /\ player.mounted \in BOOLEAN /\ player.isPlaying \in BOOLEAN
    /\ player.status \in {"idle", "starting", "playing"}
    /\ player.toggles \in Seq(Outcomes) /\ Len(player.toggles) <= MaxInFlight
    /\ IsABag(calls)
    /\ emitted \in Seq(STRING)

\* State after construction and the first render: the mount effect (lines
\* 84-92) has called requestPermissions, which is awaiting the platform.
Init ==
    /\ visible = FALSE
    /\ isRecording = FALSE /\ isPaused = FALSE /\ duration = 0
    /\ recordedUri = NoUri /\ showWarning = FALSE /\ hasPermission = FALSE
    /\ isPlaying = FALSE /\ timerOn = FALSE /\ warnTimeouts = 0
    /\ meteringOn = FALSE /\ audioLevel = 0 /\ pollOn = TRUE /\ monitors = 0
    /\ mounted = TRUE
    /\ devRecording = FALSE /\ devUri = NoUri
    /\ allowsRecording = FALSE /\ devPlaying = FALSE
    /\ devMetering = <<>>
    /\ journal = [visible |-> TRUE, mode |-> "add", date |-> "2025-01-15",
                  title |-> Empty, content |-> Empty, selectedMood |-> NoMood,
                  isSaving |-> FALSE, errors |-> NoErrors,
                  audioAttachment |-> <<>>, request |-> <<>>]
    /\ player = [mounted |-> TRUE, isPlaying |-> FALSE, status |-> "idle",
                 toggles |-> <<>>]
    /\ calls \in {SetToBag({Call("mount", "permission", p)}) : p \in Permissions}
    /\ emitted = <<"requestPermission">>

(***************************************************************************)
(* The capture device (expo-audio), as the component observes it.  A       *)
(* command that resolves has acted; a command that rejects has not.        *)
(***************************************************************************)
RecorderStop(r) ==
    IF r = "ok"
    THEN devRecording' = FALSE /\ devUri' \in Uris \cup {NoUri}
    ELSE UNCHANGED <<devRecording, devUri>>

RecorderRecord(r) == devRecording' = IF r = "ok" THEN TRUE ELSE devRecording

RecorderPause(r) == devRecording' = IF r = "ok" THEN FALSE ELSE devRecording

SetAudioMode(r, recording) ==
    allowsRecording' = IF r = "ok" THEN recording ELSE allowsRecording

\* The device stops capturing on its own (another app takes the microphone,
\* a system restriction): getStatus().isRecording turns false.
DeviceInterrupt ==
    /\ devRecording
    /\ devRecording' = FALSE
    /\ emitted' = <<>>
    /\ UNCHANGED <<visible, uiVars, restVars, isPlaying, effectVars,
                   warnTimeouts, devUri, allowsRecording, devPlaying, calls>>

\* Commit of isRecording / isPaused and of a setAudioLevel(level) batched
\* with them, together with the timer and metering effects.  Effects run
\* only on a mounted component and only when isRecording or isPaused has
\* changed; the metering effect's else branch (lines 165-177) then resets
\* the audio level.
SessionCommit(rec, paused, level) ==
    /\ isRecording' = rec
    /\ isPaused' = paused
    /\ timerOn' = (mounted /\ TimerEffect(rec, paused))
    /\ meteringOn' = (mounted /\ MeteringEffect(rec, paused))
    /\ audioLevel' = IF /\ mounted
                        /\ <<rec, paused>> # <<isRecording, isPaused>>
                        /\ ~MeteringEffect(rec, paused)
                     THEN 0
                     ELSE level

SetSession(rec, paused) == SessionCommit(rec, paused, audioLevel)

(***************************************************************************)
(* requestPermissions, lines 254-277 (called by the mount effect).         *)
(***************************************************************************)
MountPermission ==
    \E p \in {"granted", "denied"} :
      LET c == Call("mount", "permission", p) IN
      /\ Pending(c)
      /\ hasPermission' = (p = "granted")
      /\ IF p = "granted"
         THEN \E r \in Outcomes :
                /\ SetAudioMode(r, TRUE)
                /\ calls' = With(Without(c), Call("mount", "mode", r))
                /\ emitted' = <<"setAudioMode">>
         ELSE /\ calls' = Without(c)
              /\ emitted' = <<>>
              /\ UNCHANGED allowsRecording
      /\ UNCHANGED <<visible, uiVars, isPlaying, effectVars, warnTimeouts,
                     pollOn, monitors, mounted, devMetering, journal, player,
                     devRecording, devUri, devPlaying>>

\* The permission request itself rejects: caught and logged, line 274.
MountPermissionThrows ==
    LET c == Call("mount", "permission", "err") IN
    /\ Pending(c)
    /\ calls' = Without(c)
    /\ emitted' = <<>>
    /\ UNCHANGED <<visible, uiVars, restVars, isPlaying, effectVars,
                   warnTimeouts, devVars>>

MountModeSet ==
    \E r \in Outcomes :
      /\ Pending(Call("mount", "mode", r))
      /\ calls' = Without(Call("mount", "mode", r))
      /\ emitted' = <<>>
      /\ UNCHANGED <<visible, uiVars, restVars, isPlaying, effectVars,
                     warnTimeouts, devVars>>

(***************************************************************************)
(* startRecording, lines 279-387.                                          *)
(***************************************************************************)
\* Mutant of StartCatch: the error is alerted but the state is not reset.
StartCatchKeepsState(c) ==
    /\ calls' = Without(c)
    /\ emitted' = <<"alert:RecordingError">>
    /\ UNCHANGED <<visible, uiVars, restVars, isPlaying, effectVars,
                   warnTimeouts, devVars>>

\* The catch block, lines 367-386.
StartCatch(c) ==
    /\ SetSession(FALSE, FALSE)
    /\ duration' = 0
    /\ calls' = Without(c)
    /\ emitted' = <<"alert:RecordingError">>
    /\ UNCHANGED <<visible, recordedUri, showWarning, restVars, isPlaying,
                   warnTimeouts, devVars>>

\* Step 1, line 285: the Start Recording button (lines 660-664) is pressed.
StartRecording(canInvoke) ==
    /\ canInvoke
    /\ visible /\ recordedUri = NoUri /\ ~isRecording
    /\ \E p \in Permissions :
         calls' = With(calls, Call("start", "permission", p))
    /\ emitted' = <<"requestPermission">>
    /\ UNCHANGED <<visible, uiVars, restVars, isPlaying, effectVars,
                   warnTimeouts, devVars>>

\* Mutant of StartDenied: the denial is not checked and step 2 goes ahead.
StartDeniedProceeds ==
    LET c == Call("start", "permission", "denied") IN
    /\ Pending(c)
    /\ \E r \in Outcomes :
         /\ SetAudioMode(r, TRUE)
         /\ calls' = With(Without(c), Call("start", "mode", r))
    /\ emitted' = <<"setAudioMode">>
    /\ UNCHANGED <<visible, uiVars, restVars, isPlaying, effectVars,
                   warnTimeouts, devRecording, devUri, devPlaying>>

\* Permission denied, lines 292-302.
StartDenied ==
    LET c == Call("start", "permission", "denied") IN
    /\ Pending(c)
    /\ calls' = Without(c)
    /\ emitted' = <<"alert:PermissionRequired">>
    /\ UNCHANGED <<visible, uiVars, restVars, isPlaying, effectVars,
                   warnTimeouts, devVars>>

\* Permission granted: step 2, lines 304-309.
StartGranted ==
    LET c == Call("start", "permission", "granted") IN
    /\ Pending(c)
    /\ \E r \in Outcomes :
         /\ SetAudioMode(r, TRUE)
         /\ calls' = With(Without(c), Call("start", "mode", r))
    /\ emitted' = <<"setAudioMode">>
    /\ UNCHANGED <<visible, uiVars, restVars, isPlaying, effectVars,
                   warnTimeouts, devRecording, devUri, devPlaying>>

\* The permission request rejects.
StartPermissionThrows ==
    /\ Pending(Call("start", "permission", "err"))
    /\ StartCatch(Call("start", "permission", "err"))

\* Step 3, lines 312-324, then step 4, line 328, when nothing is to be stopped.
StartModeSet ==
    LET c == Call("start", "mode", "ok") IN
    /\ Pending(c)
    /\ \E r \in Outcomes :
         IF devRecording
         THEN /\ RecorderStop(r)
              /\ calls' = With(Without(c), Call("start", "stopExisting", r))
              /\ emitted' = <<"stop">>
         ELSE /\ calls' = With(Without(c), Call("start", "prepare", r))
              /\ emitted' = <<"prepare">>
              /\ UNCHANGED <<devRecording, devUri>>
    /\ UNCHANGED <<visible, uiVars, restVars, isPlaying, effectVars,
                   warnTimeouts, allowsRecording, devPlaying>>

\* The stop of the existing capture resolved: the 200 ms settle delay, line 323.
StartStoppedExisting ==
    LET c == Call("start", "stopExisting", "ok") IN
    /\ Pending(c)
    /\ calls' = With(Without(c), Call("start", "settle", "ok"))
    /\ emitted' = <<>>
    /\ UNCHANGED <<visible, uiVars, restVars, isPlaying, effectVars,
                   warnTimeouts, devVars>>

\* Step 4 after the settle delay, line 328.
StartSettled ==
    LET c == Call("start", "settle", "ok") IN
    /\ Pending(c)
    /\ \E r \in Outcomes :
         calls' = With(Without(c), Call("start", "prepare", r))
    /\ emitted' = <<"prepare">>
    /\ UNCHANGED <<visible, uiVars, restVars, isPlaying, effectVars,
                   warnTimeouts, devVars>>

\* Mutant of StartPrepared: record() is reached whatever prepareToRecordAsync
\* settled with.
StartPreparedIgnoresOutcome ==
    \E p \in Outcomes, r \in Outcomes :
      /\ Pending(Call("start", "prepare", p))
      /\ RecorderRecord(r)
      /\ calls' = With(Without(Call("start", "prepare", p)),
                       Call("start", "record", r))
      /\ emitted' = <<"record">>
      /\ UNCHANGED <<visible, uiVars, restVars, isPlaying, effectVars,
                     warnTimeouts, devUri, allowsRecording, devPlaying>>

\* Step 5, line 333.
StartPrepared ==
    LET c == Call("start", "prepare", "ok") IN
    /\ Pending(c)
    /\ \E r \in Outcomes :
         /\ RecorderRecord(r)
         /\ calls' = With(Without(c), Call("start", "record", r))
    /\ emitted' = <<"record">>
    /\ UNCHANGED <<visible, uiVars, restVars, isPlaying, effectVars,
                   warnTimeouts, devUri, allowsRecording, devPlaying>>

\* record() resolved: the 200 ms wait of line 336.
StartRecorded ==
    LET c == Call("start", "record", "ok") IN
    /\ Pending(c)
    /\ calls' = With(Without(c), Call("start", "wait", "ok"))
    /\ emitted' = <<>>
    /\ UNCHANGED <<visible, uiVars, restVars, isPlaying, effectVars,
                   warnTimeouts, devVars>>

\* Mutant of StartVerify: a verified start keeps the elapsed seconds it found.
StartVerifyKeepsDuration ==
    LET c == Call("start", "wait", "ok") IN
    /\ Pending(c)
    /\ IF devRecording
       THEN /\ SetSession(TRUE, FALSE)
            /\ recordedUri' = NoUri
            /\ calls' = Without(c)
            /\ emitted' = <<>>
            /\ UNCHANGED <<visible, duration, showWarning, restVars, isPlaying,
                           warnTimeouts, devVars>>
       ELSE StartCatch(c)

\* Verification, lines 338-366.
StartVerify ==
    LET c == Call("start", "wait", "ok") IN
    /\ Pending(c)
    /\ IF devRecording
       THEN /\ SetSession(TRUE, FALSE)
            /\ duration' = 0
            /\ recordedUri' = NoUri
            /\ calls' = Without(c)
            /\ emitted' = <<>>
            /\ UNCHANGED <<visible, showWarning, restVars, isPlaying,
                           warnTimeouts, devVars>>
       ELSE StartCatch(c)

\* A device call of startRecording rejects: setAudioModeAsync, stop,
\* prepareToRecordAsync or record.
StartThrows ==
    \E at \in {"mode", "stopExisting", "prepare", "record"} :
      /\ Pending(Call("start", at, "err"))
      /\ StartCatch(Call("start", at, "err"))

(***************************************************************************)
(* pauseRecording, lines 389-398, and resumeRecording, lines 400-409.      *)
(***************************************************************************)
PauseRecording(canInvoke) ==
    /\ canInvoke
    /\ visible /\ recordedUri = NoUri /\ isRecording /\ ~isPaused
    /\ \E r \in Outcomes :
         /\ RecorderPause(r)
         /\ calls' = With(calls, Call("pause", "pause", r))
    /\ emitted' = <<"pause">>
    /\ UNCHANGED <<visible, uiVars, restVars, isPlaying, effectVars,
                   warnTimeouts, devUri, allowsRecording, devPlaying>>

PauseResolved ==
    LET c == Call("pause", "pause", "ok") IN
    /\ Pending(c)
    /\ SetSession(isRecording, TRUE)
    /\ calls' = Without(c)
    /\ emitted' = <<>>
    /\ UNCHANGED <<visible, duration, recordedUri, showWarning, restVars,
                   isPlaying, warnTimeouts, devVars>>

\* catch of lines 395-397: the error is logged.
PauseThrows ==
    LET c == Call("pause", "pause", "err") IN
    /\ Pending(c)
    /\ calls' = Without(c)
    /\ emitted' = <<>>
    /\ UNCHANGED <<visible, uiVars, restVars, isPlaying, effectVars,
                   warnTimeouts, devVars>>

ResumeRecording(canInvoke) ==
    /\ canInvoke
    /\ visible /\ recordedUri = NoUri /\ isRecording /\ isPaused
    /\ \E r \in Outcomes :
         /\ RecorderRecord(r)
         /\ calls' = With(calls, Call("resume", "record", r))
    /\ emitted' = <<"record">>
    /\ UNCHANGED <<visible, uiVars, restVars, isPlaying, effectVars,
                   warnTimeouts, devUri, allowsRecording, devPlaying>>

ResumeResolved ==
    LET c == Call("resume", "record", "ok") IN
    /\ Pending(c)
    /\ SetSession(isRecording, FALSE)
    /\ calls' = Without(c)
    /\ emitted' = <<>>
    /\ UNCHANGED <<visible, duration, recordedUri, showWarning, restVars,
                   isPlaying, warnTimeouts, devVars>>

\* catch of lines 406-408: the error is logged.
ResumeThrows ==
    LET c == Call("resume", "record", "err") IN
    /\ Pending(c)
    /\ calls' = Without(c)
    /\ emitted' = <<>>
    /\ UNCHANGED <<visible, uiVars, restVars, isPlaying, effectVars,
                   warnTimeouts, devVars>>

(***************************************************************************)
(* stopRecording, lines 411-431.                                           *)
(***************************************************************************)
\* Up to the await of line 414.
InvokeStop ==
    \E r \in Outcomes :
      /\ RecorderStop(r)
      /\ calls' = With(calls, Call("stop", "stop", r))

\* The stop button, lines 677-682.
StopRecording(canInvoke) ==
    /\ canInvoke
    /\ visible /\ recordedUri = NoUri /\ isRecording
    /\ InvokeStop
    /\ emitted' = <<"stop">>
    /\ UNCHANGED <<visible, uiVars, restVars, isPlaying, effectVars,
                   warnTimeouts, allowsRecording, devPlaying>>

\* Mutant of StopResolved: the uri is stored but the session is not ended.
StopResolvedKeepsSession ==
    LET c == Call("stop", "stop", "ok") IN
    /\ Pending(c)
    /\ recordedUri' = IF devUri # NoUri THEN devUri ELSE recordedUri
    /\ calls' = Without(c)
    /\ emitted' = <<>>
    /\ UNCHANGED <<visible, isRecording, isPaused, effectVars, duration,
                   showWarning, restVars, isPlaying, warnTimeouts, devVars>>

\* Mutant of StopResolved: the elapsed time is reset when the session ends.
StopResolvedZeroesDuration ==
    LET c == Call("stop", "stop", "ok") IN
    /\ Pending(c)
    /\ SetSession(FALSE, FALSE)
    /\ recordedUri' = IF devUri # NoUri THEN devUri ELSE recordedUri
    /\ duration' = 0
    /\ calls' = Without(c)
    /\ emitted' = <<>>
    /\ UNCHANGED <<visible, showWarning, restVars, isPlaying, warnTimeouts,
                   devVars>>

\* Lines 416-427; a new uri resets the player (effect of lines 72-82):
\* replace() loads it into the player, which may or may not go on playing.
StopResolved ==
    LET c == Call("stop", "stop", "ok")
        uri == devUri
        replaced == uri # NoUri /\ uri # recordedUri
    IN
    /\ Pending(c)
    /\ SetSession(FALSE, FALSE)
    /\ recordedUri' = IF uri # NoUri THEN uri ELSE recordedUri
    /\ isPlaying' = IF replaced THEN FALSE ELSE isPlaying
    /\ devPlaying' \in IF replaced THEN {devPlaying, FALSE} ELSE {devPlaying}
    /\ calls' = Without(c)
    /\ emitted' = <<>>
    /\ UNCHANGED <<visible, duration, showWarning, restVars, warnTimeouts,
                   devRecording, devUri, allowsRecording>>

\* catch of lines 428-430: the error is logged.
StopThrows ==
    LET c == Call("stop", "stop", "err") IN
    /\ Pending(c)
    /\ calls' = Without(c)
    /\ emitted' = <<>>
    /\ UNCHANGED <<visible, uiVars, restVars, isPlaying, effectVars,
                   warnTimeouts, devVars>>

(***************************************************************************)
(* The duration timer callback, lines 207-237.                             *)
(***************************************************************************)
\* Mutant of WarnsAt: the warning is raised on every tick from the threshold on.
WarnsFrom(newDuration) == newDuration >= WARNING_DURATION

WarnsAt(newDuration) == newDuration = WARNING_DURATION

\* Mutant of AutoStopsAt: the cap is compared with > instead of >=.
AutoStopsAfter(newDuration) == newDuration > MAX_DURATION

AutoStopsAt(newDuration) == newDuration >= MAX_DURATION

\* Mutant of TickDesync: the interval is cleared but isRecording is left set.
TickDesyncKeepsRecording ==
    /\ timerOn' = FALSE
    /\ emitted' = <<>>
    /\ UNCHANGED <<visible, uiVars, restVars, isPlaying, meteringOn, audioLevel,
                   warnTimeouts, devVars, calls>>

\* The tick finds the recorder not recording, lines 210-218.
TickDesync ==
    /\ SetSession(FALSE, isPaused)
    /\ emitted' = <<>>
    /\ UNCHANGED <<visible, duration, recordedUri, showWarning, restVars,
                   isPlaying, warnTimeouts, devVars, calls>>

\* Mutant of TickCount: the tick at the cap invokes stop and counts as well.
TickCountAtCapCounts(cap) ==
    LET newDuration == duration + 1 IN
    IF AutoStopsAt(newDuration)
    THEN /\ InFlight < MaxInFlight
         /\ InvokeStop
         /\ duration' = newDuration
         /\ emitted' = <<"stop">>
         /\ UNCHANGED <<visible, isRecording, isPaused, recordedUri, showWarning,
                        restVars, isPlaying, effectVars,
                        warnTimeouts, allowsRecording, devPlaying>>
    ELSE /\ newDuration <= cap
         /\ duration' = newDuration
         /\ IF WarnsAt(newDuration)
            THEN /\ warnTimeouts < MaxTimeouts
                 /\ showWarning' = TRUE
                 /\ warnTimeouts' = warnTimeouts + 1
            ELSE UNCHANGED <<showWarning, warnTimeouts>>
         /\ emitted' = <<>>
         /\ UNCHANGED <<visible, isRecording, isPaused, recordedUri,
                        restVars, isPlaying, effectVars, devVars, calls>>

\* The setDuration updater, lines 220-236.
TickCount(cap) ==
    LET newDuration == duration + 1 IN
    IF AutoStopsAt(newDuration)
    THEN /\ InFlight < MaxInFlight
         /\ InvokeStop
         /\ emitted' = <<"stop">>
         /\ UNCHANGED <<visible, uiVars, restVars, isPlaying, effectVars,
                        warnTimeouts, allowsRecording, devPlaying>>
    ELSE /\ newDuration <= cap
         /\ duration' = newDuration
         /\ IF WarnsAt(newDuration)
            THEN /\ warnTimeouts < MaxTimeouts
                 /\ showWarning' = TRUE
                 /\ warnTimeouts' = warnTimeouts + 1
            ELSE UNCHANGED <<showWarning, warnTimeouts>>
         /\ emitted' = <<>>
         /\ UNCHANGED <<visible, isRecording, isPaused, recordedUri,
                        restVars, isPlaying, effectVars, devVars, calls>>

Tick(cap) ==
    /\ timerOn
    /\ IF ~devRecording THEN TickDesync ELSE TickCount(cap)

\* Mutant of WarningExpires: the timeout fires without clearing the warning.
WarningExpiresKeepsWarning ==
    /\ warnTimeouts > 0
    /\ warnTimeouts' = warnTimeouts - 1
    /\ emitted' = <<>>
    /\ UNCHANGED <<visible, uiVars, restVars, isPlaying, effectVars,
                   devVars, calls>>

\* The timeout of line 226 fires.
WarningExpires ==
    /\ warnTimeouts > 0
    /\ warnTimeouts' = warnTimeouts - 1
    /\ showWarning' = FALSE
    /\ emitted' = <<>>
    /\ UNCHANGED <<visible, isRecording, isPaused, duration, recordedUri,
                   restVars, isPlaying, effectVars, devVars, calls>>

(***************************************************************************)
(* cleanupRecording, lines 493-526, and handleClose, lines 528-537.        *)
(***************************************************************************)
\* From line 505 on: the rest of cleanupRecording, the resets and onClose.
\* playing is the isPlaying the invocation was rendered with.
CloseFinish(playing) ==
    /\ SessionCommit(FALSE, FALSE, 0)
    /\ isPlaying' = IF playing THEN FALSE ELSE isPlaying
    /\ devPlaying' = IF playing THEN FALSE ELSE devPlaying
    /\ duration' = 0
    /\ recordedUri' = NoUri
    /\ showWarning' = FALSE
    /\ visible' = FALSE
    /\ UNCHANGED <<restVars, warnTimeouts, devRecording, devUri,
                   allowsRecording>>

\* handleClose as invoked from a render: up to the await of line 499 when the
\* render had isRecording, to its end otherwise.  before is what the caller
\* sent out first, shown the visible prop it leaves while the stop is awaited.
CloseBody(before, shown) ==
    IF isRecording
    THEN /\ visible' = shown
         /\ \E r \in Outcomes :
              /\ RecorderStop(r)
              /\ calls' = With(calls, Call("close",
                                 IF isPlaying THEN "stopPlaying" ELSE "stop", r))
         /\ emitted' = before \o <<"stop">>
         /\ UNCHANGED <<uiVars, restVars, isPlaying, effectVars,
                        warnTimeouts, allowsRecording, devPlaying>>
    ELSE /\ CloseFinish(isPlaying)
         /\ emitted' = before \o <<"onClose">>
         /\ UNCHANGED calls

\* The close button (line 615) or onRequestClose (line 610).
HandleClose(canInvoke) ==
    /\ canInvoke
    /\ visible
    /\ CloseBody(<<>>, visible)

\* The device stop of cleanupRecording settled; a rejection is swallowed.
HandleCloseStopped ==
    \E at \in {"stop", "stopPlaying"}, r \in Outcomes :
      /\ Pending(Call("close", at, r))
      /\ CloseFinish(at = "stopPlaying")
      /\ calls' = Without(Call("close", at, r))
      /\ emitted' = <<"onClose">>

(***************************************************************************)
(* handleSave, lines 539-544; the parent's onSave (JournalModal) hides the *)
(* recorder.                                                               *)
(***************************************************************************)
\* Mutant of OnSave: the elapsed time is not handed over.
OnSaveWithoutDuration(uri, seconds) == <<"onSave", uri, ToString(0)>>

\* The call onSave(uri, seconds) as it leaves the component.
OnSave(uri, seconds) == <<"onSave", uri, ToString(seconds)>>

\* Mutant of HandleSave: the elapsed time is not looked at.
HandleSaveAnyDuration(canInvoke) ==
    /\ canInvoke
    /\ visible /\ recordedUri # NoUri
    /\ CloseBody(OnSave(recordedUri, duration), FALSE)

HandleSave(canInvoke) ==
    /\ canInvoke
    /\ visible /\ recordedUri # NoUri
    /\ IF duration > 0
       THEN CloseBody(OnSave(recordedUri, duration), FALSE)
       ELSE /\ emitted' = <<>>
            /\ UNCHANGED <<visible, uiVars, restVars, isPlaying, effectVars,
                           warnTimeouts, devVars, calls>>

\* The Record Again button, lines 729-745.
RecordAgain(canInvoke) ==
    /\ canInvoke
    /\ visible /\ recordedUri # NoUri
    /\ SessionCommit(FALSE, FALSE, 0)
    /\ isPlaying' = FALSE
    /\ devPlaying' = IF isPlaying THEN FALSE ELSE devPlaying
    /\ duration' = 0
    /\ recordedUri' = NoUri
    /\ emitted' = IF isPlaying THEN <<"playerPause">> ELSE <<>>
    /\ UNCHANGED <<visible, showWarning, restVars, warnTimeouts,
                   devRecording, devUri, allowsRecording, calls>>

\* The journal editor shows the recorder (JournalModal, line 292).
Open ==
    /\ mounted /\ ~visible
    /\ visible' = TRUE
    /\ emitted' = <<>>
    /\ UNCHANGED <<uiVars, restVars, isPlaying, effectVars, warnTimeouts,
                   devVars, calls>>

(***************************************************************************)
(* The metering sampler, lines 139-164.                                    *)
(***************************************************************************)
Min(a, b) == IF a < b THEN a ELSE b
Max(a, b) == IF a > b THEN a ELSE b

\* Mutant of Normalize: the level is not clamped.
NormalizeUnclamped(db) == db + METER_RANGE

\* Line 154, Math.max(0, Math.min(1, (metering + 160) / 160)), in units of
\* 1 / METER_RANGE.
Normalize(db) == Max(0, Min(METER_RANGE, db + METER_RANGE))

\* Lines 153-160: the level the sampler sets for a reading.
LevelOf(reading) == IF reading # <<>> THEN Normalize(reading[1]) ELSE 0

\* The 50 ms interval callback.
MeteringSample ==
    /\ meteringOn
    /\ audioLevel' = LevelOf(devMetering)
    /\ emitted' = <<>>
    /\ UNCHANGED <<visible, uiVars, restVars, isPlaying, timerOn, meteringOn,
                   warnTimeouts, devVars, calls>>

\* The level at the microphone changes while the device captures.
MeterChanges ==
    /\ devRecording
    /\ devMetering' \in Readings \ {devMetering}
    /\ emitted' = <<>>
    /\ UNCHANGED <<visible, uiVars, hasPermission, pollOn, monitors, mounted,
                   journal, player, isPlaying, effectVars, warnTimeouts, devVars,
                   calls>>

(***************************************************************************)
(* Playback of the artifact: playRecording, lines 433-480, pausePlayback,  *)
(* lines 482-491, and the two intervals that watch audioPlayer.playing.    *)
(***************************************************************************)
\* The playback button (lines 702-705) of a render with isPlaying false:
\* playRecording up to the await of line 456.  The pause branch of lines
\* 443-448 needs a render with isPlaying true, which binds pausePlayback.
PlayRecording(canInvoke) ==
    /\ canInvoke
    /\ visible /\ recordedUri # NoUri /\ ~isPlaying
    /\ monitors < MaxMonitors
    /\ \E r \in Outcomes :
         /\ SetAudioMode(r, FALSE)
         /\ calls' = With(calls, Call("play", "mode", r))
    /\ emitted' = <<"seekTo", "setAudioMode">>
    /\ UNCHANGED <<visible, uiVars, restVars, isPlaying, effectVars,
                   warnTimeouts, devRecording, devUri, devPlaying>>

\* Lines 462-474: the mode is set; play(), setIsPlaying(true) and the
\* checkCompletion interval.  A play() that throws goes to the catch.
PlayStarted ==
    LET c == Call("play", "mode", "ok") IN
    /\ Pending(c)
    /\ calls' = Without(c)
    /\ \E r \in Outcomes :
         IF r = "ok"
         THEN /\ devPlaying' = TRUE
              /\ isPlaying' = TRUE
              /\ monitors' = monitors + 1
         ELSE /\ isPlaying' = FALSE
              /\ UNCHANGED <<devPlaying, monitors>>
    /\ emitted' = <<"play">>
    /\ UNCHANGED <<visible, uiVars, hasPermission, pollOn, mounted, devMetering, journal, player, effectVars,
                   warnTimeouts, devRecording, devUri, allowsRecording>>

\* Mutant of PlayThrows: the catch is skipped, play() is issued all the same.
PlayThrowsStillPlays ==
    LET c == Call("play", "mode", "err") IN
    /\ Pending(c)
    /\ calls' = Without(c)
    /\ devPlaying' = TRUE
    /\ isPlaying' = TRUE
    /\ emitted' = <<"play">>
    /\ UNCHANGED <<visible, uiVars, restVars, effectVars, warnTimeouts,
                   devRecording, devUri, allowsRecording>>

\* setAudioModeAsync rejects: the catch of lines 475-478.
PlayThrows ==
    LET c == Call("play", "mode", "err") IN
    /\ Pending(c)
    /\ calls' = Without(c)
    /\ isPlaying' = FALSE
    /\ emitted' = <<>>
    /\ UNCHANGED <<visible, uiVars, restVars, effectVars, warnTimeouts, devVars>>

\* The playback button of a render with isPlaying true: pausePlayback.
PausePlayback(canInvoke) ==
    /\ canInvoke
    /\ visible /\ recordedUri # NoUri /\ isPlaying
    /\ devPlaying' = FALSE
    /\ isPlaying' = FALSE
    /\ emitted' = <<"playerPause">>
    /\ UNCHANGED <<visible, uiVars, restVars, effectVars, warnTimeouts,
                   devRecording, devUri, allowsRecording, calls>>

\* Mutant of PlaybackPoll: the poll only ever reports that playback started.
PlaybackPollMissesCompletion ==
    /\ pollOn
    /\ devPlaying # isPlaying
    /\ isPlaying' = (isPlaying \/ devPlaying)
    /\ emitted' = <<>>
    /\ UNCHANGED <<visible, uiVars, restVars, effectVars, warnTimeouts,
                   devVars, calls>>

\* The 100 ms interval of lines 98-109 finds audioPlayer.playing different
\* from isPlaying.
PlaybackPoll ==
    /\ pollOn
    /\ devPlaying # isPlaying
    /\ isPlaying' = devPlaying
    /\ emitted' = <<>>
    /\ UNCHANGED <<visible, uiVars, restVars, effectVars, warnTimeouts,
                   devVars, calls>>

\* A checkCompletion interval (lines 467-474) finds the player not playing
\* and clears itself.
CompletionCheck ==
    /\ monitors > 0
    /\ ~devPlaying
    /\ monitors' = monitors - 1
    /\ isPlaying' = FALSE
    /\ emitted' = <<>>
    /\ UNCHANGED <<visible, uiVars, hasPermission, pollOn, mounted, devMetering, journal, player, effectVars,
                   warnTimeouts, devVars, calls>>

\* The player reaches the end of the artifact.
PlaybackEnds ==
    /\ devPlaying
    /\ devPlaying' = FALSE
    /\ emitted' = <<>>
    /\ UNCHANGED <<visible, uiVars, restVars, isPlaying, effectVars,
                   warnTimeouts, devRecording, devUri, allowsRecording, calls>>

(***************************************************************************)
(* Unmount.  The cleanup of the mount effect (lines 84-92, dependencies [])*)
(* calls the cleanupRecording of the first render, whose isRecording and   *)
(* isPlaying are the initial false: lines 497 and 506 are skipped, lines   *)
(* 514-521 clear timerRef and meteringRef.  The cleanup of the poll effect *)
(* (line 111) clears the 100 ms interval.                                  *)
(***************************************************************************)
\* cleanupRecording as bound by a render with the given isRecording and
\* isPlaying, when it does not have to await: what it sends to the devices.
CleanupCommands(rec, playing) ==
    (IF rec THEN <<"stop">> ELSE <<>>) \o (IF playing THEN <<"playerPause">> ELSE <<>>)

Unmount ==
    /\ mounted
    /\ mounted' = FALSE
    /\ visible' = FALSE
    /\ timerOn' = FALSE /\ meteringOn' = FALSE
    /\ UNCHANGED audioLevel
    /\ pollOn' = FALSE
    /\ emitted' = CleanupCommands(FALSE, FALSE)
    /\ UNCHANGED <<uiVars, hasPermission, isPlaying, monitors, warnTimeouts,
                   devVars, devMetering, journal, player, calls>>

(***************************************************************************)
(* Specifications.                                                         *)
(***************************************************************************)
\* Handlers may overlap; recordings of up to MaxElapsed seconds.
Next ==
    \/ MountPermission \/ MountPermissionThrows \/ MountModeSet
    \/ StartRecording(Overlapping)
    \/ StartDenied \/ StartGranted \/ StartPermissionThrows
    \/ StartModeSet \/ StartStoppedExisting \/ StartSettled
    \/ StartPrepared \/ StartRecorded \/ StartVerify \/ StartThrows
    \/ PauseRecording(Overlapping) \/ PauseResolved \/ PauseThrows
    \/ ResumeRecording(Overlapping) \/ ResumeResolved \/ ResumeThrows
    \/ StopRecording(Overlapping) \/ StopResolved \/ StopThrows
    \/ Tick(MaxElapsed)
    \/ HandleClose(Overlapping) \/ HandleCloseStopped
    \/ HandleSave(Overlapping)
    \/ RecordAgain(Overlapping)
    \/ Open
    \/ DeviceInterrupt

Spec == Init /\ [][Next]_vars

\* The user waits for a handler to finish before the next press; recordings
\* run up to the cap.
SeqNext ==
    \/ MountPermission \/ MountPermissionThrows \/ MountModeSet
    \/ StartRecording(Sequential)
    \/ StartDenied \/ StartGranted \/ StartPermissionThrows
    \/ StartModeSet \/ StartStoppedExisting \/ StartSettled
    \/ StartPrepared \/ StartRecorded \/ StartVerify \/ StartThrows
    \/ PauseRecording(Sequential) \/ PauseResolved \/ PauseThrows
    \/ ResumeRecording(Sequential) \/ ResumeResolved \/ ResumeThrows
    \/ StopRecording(Sequential) \/ StopResolved \/ StopThrows
    \/ Tick(MAX_DURATION)
    \/ WarningExpires
    \/ HandleClose(Sequential) \/ HandleCloseStopped
    \/ HandleSave(Sequential)
    \/ RecordAgain(Sequential)
    \/ Open
    \/ DeviceInterrupt

SeqSpec == Init /\ [][SeqNext]_vars

\* Recordings left to run into the cap: as SeqSpec, but the user never
\* presses Stop, so every stopRecording invocation is the timer's.
AutoStopNext ==
    \/ MountPermission \/ MountPermissionThrows \/ MountModeSet
    \/ StartRecording(Sequential)
    \/ StartDenied \/ StartGranted \/ StartPermissionThrows
    \/ StartModeSet \/ StartStoppedExisting \/ StartSettled
    \/ StartPrepared \/ StartRecorded \/ StartVerify \/ StartThrows
    \/ PauseRecording(Sequential) \/ PauseResolved \/ PauseThrows
    \/ ResumeRecording(Sequential) \/ ResumeResolved \/ ResumeThrows
    \/ StopResolved \/ StopThrows
    \/ Tick(MAX_DURATION)
    \/ WarningExpires
    \/ HandleClose(Sequential) \/ HandleCloseStopped
    \/ HandleSave(Sequential)
    \/ RecordAgain(Sequential)
    \/ Open
    \/ DeviceInterrupt

AutoStopSpec == Init /\ [][AutoStopNext]_vars

\* Recording, playback and teardown: the recording controls are pressed one
\* at a time; playback, Record Again, save and close may overlap whatever is
\* in flight; the journal editor may unmount the recorder at any moment.
PlayNext ==
    \/ MountPermission \/ MountPermissionThrows \/ MountModeSet
    \/ StartRecording(Sequential)
    \/ StartDenied \/ StartGranted \/ StartPermissionThrows
    \/ StartModeSet \/ StartStoppedExisting \/ StartSettled
    \/ StartPrepared \/ StartRecorded \/ StartVerify \/ StartThrows
    \/ PauseRecording(Sequential) \/ PauseResolved \/ PauseThrows
    \/ ResumeRecording(Sequential) \/ ResumeResolved \/ ResumeThrows
    \/ StopRecording(Sequential) \/ StopResolved \/ StopThrows
    \/ Tick(MaxElapsed)
    \/ PlayRecording(Overlapping) \/ PlayStarted \/ PlayThrows
    \/ PausePlayback(Overlapping)
    \/ PlaybackPoll \/ CompletionCheck \/ PlaybackEnds
    \/ HandleClose(Overlapping) \/ HandleCloseStopped
    \/ HandleSave(Overlapping)
    \/ RecordAgain(Overlapping)
    \/ Open
    \/ Unmount
    \/ DeviceInterrupt

PlaySpec == Init /\ [][PlayNext]_vars

\* Recording and playback sharing the device's audio mode: start, stop and
\* play may be pressed while earlier invocations still await the device.
ModeNext ==
    \/ MountPermission \/ MountPermissionThrows \/ MountModeSet
    \/ StartRecording(Overlapping)
    \/ StartDenied \/ StartGranted \/ StartPermissionThrows
    \/ StartModeSet \/ StartStoppedExisting \/ StartSettled
    \/ StartPrepared \/ StartRecorded \/ StartVerify \/ StartThrows
    \/ PauseRecording(Sequential) \/ PauseResolved \/ PauseThrows
    \/ ResumeRecording(Sequential) \/ ResumeResolved \/ ResumeThrows
    \/ StopRecording(Overlapping) \/ StopResolved \/ StopThrows
    \/ Tick(MaxElapsed)
    \/ PlayRecording(Overlapping) \/ PlayStarted \/ PlayThrows
    \/ RecordAgain(Sequential)
    \/ Open

ModeSpec == Init /\ [][ModeNext]_vars

(***************************************************************************)
(* The journal editor, JournalModal in src/unnamed/part_002.  Its record   *)
(* holds the props visible, mode and date, the state of lines 54-60        *)
(* (voiceRecorderVisible is the recorder's visible), and request, the      *)
(* api call handleSave is awaiting: <<>> or one [api, data, res].          *)
(***************************************************************************)
\* The part of the recorder the editor's own handlers leave alone.
recorderVars == <<uiVars, hasPermission, pollOn, monitors, mounted, devMetering,
                  player, isPlaying, effectVars, warnTimeouts, devVars, calls>>

\* validateForm, lines 80-106.
TitleError(text) ==
    IF Trim(text).len = 0 THEN "Title is required"
    ELSE IF Trim(text).len < TITLE_MIN THEN "Title must be at least 3 characters"
    ELSE ""

ContentError(text) ==
    IF Trim(text).len = 0 THEN "Content is required"
    ELSE IF Trim(text).len < CONTENT_MIN
         THEN "Content must be at least 10 characters"
    ELSE ""

MoodError(mood) == IF mood = NoMood THEN "Please select your mood" ELSE ""

validateForm ==
    [title |-> TitleError(journal.title),
     content |-> ContentError(journal.content),
     mood |-> MoodError(journal.selectedMood)]

\* The object handed to the api, lines 121-136.
JournalData ==
    [date |-> journal.date,
     title |-> Trim(journal.title),
     content |-> Trim(journal.content),
     mood |-> journal.selectedMood,
     tags |-> <<>>]

\* The parent shows the editor for a new entry or for an entry it holds; the
\* effect of lines 69-77 loads the form.
ShowJournal ==
    /\ ~journal.visible
    /\ \E mode \in {"add", "edit"}, date \in Dates \cup {NoDate} :
         journal' = [journal EXCEPT
            !.visible = TRUE, !.mode = mode, !.date = date,
            !.title = IF mode = "add" THEN Empty
                      ELSE [pad |-> 0, len |-> TITLE_MIN],
            !.content = IF mode = "add" THEN Empty
                        ELSE [pad |-> 0, len |-> CONTENT_MIN],
            !.selectedMood = IF mode = "add" THEN NoMood ELSE 5,
            !.errors = NoErrors]
    /\ emitted' = <<>>
    /\ UNCHANGED <<visible, recorderVars>>

\* onChangeText of the title, lines 267-270, and of the content, 310-313;
\* a mood is picked, lines 232-235.
EditTitle ==
    /\ journal.visible
    /\ \E text \in Texts(TITLE_MIN) \ {journal.title} :
         journal' = [journal EXCEPT !.title = text, !.errors.title = ""]
    /\ emitted' = <<>>
    /\ UNCHANGED <<visible, recorderVars>>

EditContent ==
    /\ journal.visible
    /\ \E text \in Texts(CONTENT_MIN) \ {journal.content} :
         journal' = [journal EXCEPT !.content = text, !.errors.content = ""]
    /\ emitted' = <<>>
    /\ UNCHANGED <<visible, recorderVars>>

SelectMood ==
    /\ journal.visible
    /\ \E mood \in Moods \ {journal.selectedMood} :
         journal' = [journal EXCEPT !.selectedMood = mood, !.errors.mood = ""]
    /\ emitted' = <<>>
    /\ UNCHANGED <<visible, recorderVars>>

\* The Voice button, line 292.
OpenRecorder == journal.visible /\ Open

\* The recorder's onSave as the editor receives it, lines 365-368.
AttachRecording ==
    /\ visible
    /\ \E uri \in Uris, seconds \in 1..MaxElapsed :
         journal' = [journal EXCEPT
            !.audioAttachment = <<[uri |-> uri, duration |-> seconds]>>]
    /\ visible' = FALSE
    /\ emitted' = <<>>
    /\ UNCHANGED recorderVars

\* The remove button of the attachment indicator, line 334.
RemoveAttachment ==
    /\ journal.visible /\ journal.audioAttachment # <<>>
    /\ journal' = [journal EXCEPT !.audioAttachment = <<>>]
    /\ emitted' = <<>>
    /\ UNCHANGED <<visible, recorderVars>>

\* handleSave up to its await, lines 108-143.
JournalSave ==
    /\ journal.visible /\ ~journal.isSaving
    /\ IF journal.date = NoDate
       THEN /\ UNCHANGED journal
            /\ emitted' = <<"return">>
       ELSE IF validateForm # NoErrors
       THEN /\ journal' = [journal EXCEPT !.errors = validateForm]
            /\ emitted' = <<"invalid">>
       ELSE /\ \E r \in Outcomes :
                 journal' = [journal EXCEPT
                    !.errors = NoErrors,
                    !.isSaving = TRUE,
                    !.request = <<[api |-> IF journal.mode = "add"
                                           THEN "createJournalEntry"
                                           ELSE "updateJournalEntry",
                                   data |-> JournalData,
                                   res |-> r]>>]
            /\ emitted' = <<"api">>
    /\ UNCHANGED <<visible, recorderVars>>

\* handleClose, lines 154-160.
JournalClosed == [journal EXCEPT
    !.title = Empty, !.content = Empty, !.selectedMood = NoMood,
    !.errors = NoErrors, !.visible = FALSE]

JournalClose ==
    /\ journal.visible
    /\ journal' = JournalClosed
    /\ emitted' = <<"journal.onClose">>
    /\ UNCHANGED <<visible, recorderVars>>

\* handleSave after its await, lines 139-151.
JournalSaved ==
    /\ journal.request # <<>>
    /\ IF journal.request[1].res = "ok"
       THEN /\ journal' = [JournalClosed EXCEPT !.isSaving = FALSE, !.request = <<>>]
            /\ emitted' = <<"journal.onSave", "journal.onClose">>
       ELSE /\ journal' = [journal EXCEPT !.isSaving = FALSE, !.request = <<>>]
            /\ emitted' = <<>>
    /\ UNCHANGED <<visible, recorderVars>>

\* The editor with the recorder it shows; what is recorded comes in through
\* AttachRecording.
JournalNext ==
    \/ ShowJournal \/ JournalClose
    \/ EditTitle \/ EditContent \/ SelectMood
    \/ OpenRecorder \/ HandleClose(Overlapping)
    \/ AttachRecording \/ RemoveAttachment
    \/ JournalSave \/ JournalSaved

JournalSpec == Init /\ [][JournalNext]_vars

(***************************************************************************)
(* The player of saved recordings, AudioPlayer in src/unnamed/part_001,    *)
(* lines 443-505.  Its record holds mounted, the state isPlaying, the      *)
(* player's status (audioPlayer.playing is status = "playing"; after       *)
(* play() the player may report playing at once or only once it has        *)
(* started) and toggles, the outcomes of the setAudioModeAsync calls that  *)
(* togglePlayback invocations are awaiting, oldest first.                  *)
(***************************************************************************)
\* The part of the state the player's own steps leave alone.
besidePlayer == <<visible, uiVars, hasPermission, pollOn, monitors, mounted,
                  devMetering, journal, isPlaying, effectVars, warnTimeouts,
                  devRecording, devUri, devPlaying, calls>>

\* The cleanup of lines 467-478 is re-created on every change of isPlaying
\* (deps [audioPlayer, isPlaying]): the one of the render that is replaced
\* or unmounted runs, and pauses if that render had isPlaying true.
CleanupPauses(next) ==
    /\ player.mounted /\ player.isPlaying
    /\ ~next.mounted \/ ~next.isPlaying

\* The component after the commit of next, and what the cleanup sent.
Committed(next) ==
    IF CleanupPauses(next) THEN [next EXCEPT !.status = "idle"] ELSE next

CleanupEmits(next) ==
    IF CleanupPauses(next) THEN <<"cleanup.pause">> ELSE <<>>

\* setIsPlaying(playing); a setter of an unmounted component does nothing.
SetIsPlaying(current, playing) ==
    IF current.mounted THEN [current EXCEPT !.isPlaying = playing] ELSE current

\* togglePlayback up to its return or its await, lines 480-495.
TogglePlayback ==
    /\ player.mounted
    /\ IF player.isPlaying
       THEN LET next == SetIsPlaying([player EXCEPT !.status = "idle"], FALSE) IN
            /\ player' = Committed(next)
            /\ emitted' = <<"player.pause">> \o CleanupEmits(next)
            /\ UNCHANGED allowsRecording
       ELSE /\ Len(player.toggles) < MaxInFlight
            /\ \E r \in Outcomes :
                 /\ SetAudioMode(r, FALSE)
                 /\ player' = [player EXCEPT !.toggles = Append(@, r)]
            /\ emitted' = <<"seekTo", "setAudioMode">>
    /\ UNCHANGED besidePlayer

\* togglePlayback after its await, lines 496-503: play() and
\* setIsPlaying(true), or the catch.
ToggleResumed ==
    /\ player.toggles # <<>>
    /\ LET rest == [player EXCEPT !.toggles = Tail(@)] IN
       IF Head(player.toggles) = "ok"
       THEN /\ \E status \in IF player.status = "playing" \/ ~player.mounted
                              THEN {player.status}
                              ELSE {"starting", "playing"} :
                 player' = SetIsPlaying([rest EXCEPT !.status = status], TRUE)
            /\ emitted' = <<"play">>
       ELSE LET next == SetIsPlaying(rest, FALSE) IN
            /\ player' = Committed(next)
            /\ emitted' = CleanupEmits(next)
    /\ UNCHANGED <<besidePlayer, allowsRecording>>

\* The 100 ms interval of lines 452-465 finds audioPlayer.playing different
\* from isPlaying.
PlayerPoll ==
    /\ player.mounted
    /\ (player.status = "playing") # player.isPlaying
    /\ LET next == SetIsPlaying(player, player.status = "playing") IN
       /\ player' = Committed(next)
       /\ emitted' = CleanupEmits(next)
    /\ UNCHANGED <<besidePlayer, allowsRecording>>

\* The player starts to play what play() asked for; the recording plays to
\* its end.
PlayerStarts ==
    /\ player.status = "starting"
    /\ player' = [player EXCEPT !.status = "playing"]
    /\ emitted' = <<>>
    /\ UNCHANGED <<besidePlayer, allowsRecording>>

PlayerEnds ==
    /\ player.status = "playing"
    /\ player' = [player EXCEPT !.status = "idle"]
    /\ emitted' = <<>>
    /\ UNCHANGED <<besidePlayer, allowsRecording>>

\* The entry view goes away.
PlayerUnmount ==
    /\ player.mounted
    /\ LET next == [player EXCEPT !.mounted = FALSE] IN
       /\ player' = Committed(next)
       /\ emitted' = CleanupEmits(next)
    /\ UNCHANGED <<besidePlayer, allowsRecording>>

PlayerNext ==
    \/ TogglePlayback \/ ToggleResumed
    \/ PlayerPoll
    \/ PlayerStarts \/ PlayerEnds
    \/ PlayerUnmount

PlayerSpec == Init /\ [][PlayerNext]_vars

\* Recording with the metering sampler: the controls are pressed one at a
\* time, recordings of up to MaxElapsed seconds.
MeterNext ==
    \/ MountPermission \/ MountPermissionThrows \/ MountModeSet
    \/ StartRecording(Sequential)
    \/ StartDenied \/ StartGranted \/ StartPermissionThrows
    \/ StartModeSet \/ StartStoppedExisting \/ StartSettled
    \/ StartPrepared \/ StartRecorded \/ StartVerify \/ StartThrows
    \/ PauseRecording(Sequential) \/ PauseResolved \/ PauseThrows
    \/ ResumeRecording(Sequential) \/ ResumeResolved \/ ResumeThrows
    \/ StopRecording(Sequential) \/ StopResolved \/ StopThrows
    \/ Tick(MaxElapsed)
    \/ MeteringSample \/ MeterChanges
    \/ HandleClose(Sequential) \/ HandleCloseStopped
    \/ HandleSave(Sequential)
    \/ RecordAgain(Sequential)
    \/ Open
    \/ DeviceInterrupt

MeterSpec == Init /\ [][MeterNext]_vars

\* The 100 ms interval fires as long as it exists.
PlayFairSpec == PlaySpec /\ WF_vars(PlaybackPoll)

\* The event loop runs every settled continuation and every due timeout.
FairSpec ==
    /\ SeqSpec
    /\ WF_vars(StopResolved)
    /\ WF_vars(WarningExpires)

(***************************************************************************)
(* Properties.                                                             *)
(***************************************************************************)
\* A step of the duration timer callback, whatever the bound on elapsed time.
TickStep == Tick(MAX_DURATION)

\* The invocation c ends in this step (its handler returns or throws out).
Ended(c) == Pending(c) /\ calls' = Without(c)

\* C1 (as claimed): in every reachable state, a session shown as Recording
\* (isRecording and not isPaused) has a capture device that is recording.
C1_RecordingOnlyWhileDeviceRecords == Recording => devRecording

\* C1 (amended): a session shown as Recording while the device is not
\* recording always has the duration timer running, and the tick that finds
\* the device not recording takes the session out of Recording.
C1_DesyncEndsAtNextTick ==
    /\ [](Recording /\ ~devRecording => timerOn)
    /\ [][TickStep /\ ~devRecording => ~Recording' /\ ~timerOn']_vars

\* C1 witness: the session shows Recording, the device has stopped, the timer
\* that will detect it is running.
C1_Witness == Recording /\ ~devRecording /\ timerOn /\ calls = EmptyBag

\* C2: once the recorder has been closed and no invocation is pending, the
\* device is not recording and the session is Idle with elapsedSeconds 0 and
\* no artifact.
C2_ClosedMeansReleased ==
    (~visible /\ calls = EmptyBag) =>
        /\ ~devRecording
        /\ ~isRecording /\ ~isPaused
        /\ duration = 0
        /\ recordedUri = NoUri

\* C3: elapsedSeconds advances only by a tick of a Recording session, one
\* second at a time, never while Paused, Stopped or Idle; it goes down only
\* to 0, where a session ends (not recording any more) or a start() completes.
C3_ElapsedMonotoneWhileRecording ==
    [][ /\ duration' > duration =>
            /\ Recording /\ timerOn
            /\ duration' = duration + 1
            /\ UNCHANGED <<isRecording, isPaused>>
        /\ duration' < duration =>
            /\ duration' = 0
            /\ ~isRecording' \/ Ended(Call("start", "wait", "ok")) ]_vars

\* C3 witness: a session that was paused after two seconds still shows two
\* seconds (scenario B).
C3_Witness == Paused /\ duration = 2 /\ ~devRecording /\ calls = EmptyBag

\* C4: elapsedSeconds at or above the cap implies Stopped; the session is
\* never Recording or Paused with elapsedSeconds at or above MAX_DURATION.
C4_CapImpliesStopped ==
    /\ duration >= MAX_DURATION => Stopped
    /\ isRecording => duration < MAX_DURATION

\* C4 witness: the session ran to the last second before the cap, was stopped
\* there and is Stopped with its artifact.
C4_Witness ==
    Stopped /\ duration = MAX_DURATION - 1 /\ ~timerOn /\ calls = EmptyBag

\* C5: the tick that would reach the cap invokes stop() itself; when the
\* device stop resolves the session has ended (Stopped with the artifact the
\* device returned) and the timer is gone; ticks occur in Recording sessions
\* only, so none follows; and the pending stop always gets there.
C5_AutoStopAtCap ==
    /\ [][TickStep /\ devRecording /\ duration = MAX_DURATION - 1 =>
            /\ \E r \in Outcomes : calls' = With(calls, Call("stop", "stop", r))
            /\ emitted' = <<"stop">>
            /\ duration' = duration]_vars
    /\ [][Ended(Call("stop", "stop", "ok")) =>
            /\ ~isRecording' /\ ~isPaused' /\ ~timerOn'
            /\ devUri # NoUri => Stopped' /\ recordedUri' = devUri
            /\ duration' = duration]_vars
    /\ [][TickStep => Recording]_vars
    /\ (duration = MAX_DURATION - 1 /\ Pending(Call("stop", "stop", "ok")))
           ~> (~isRecording /\ ~timerOn)

\* C5 witness: the session ran to the cap, the stop resolved, and the playback
\* screen shows the artifact the device returned; no timer is left.
C5_Witness ==
    /\ Stopped /\ duration = MAX_DURATION - 1 /\ recordedUri = devUri
    /\ ~timerOn /\ ~devRecording

\* C6: showWarning turns from false to true only on the tick that takes
\* elapsedSeconds from 269 to 270, and elapsedSeconds becomes 270 only that
\* way, so at most once in a session.
C6_WarningOnceAtThreshold ==
    [][ /\ ~showWarning /\ showWarning' =>
            /\ TickStep /\ Recording
            /\ duration = WARNING_DURATION - 1
            /\ duration' = WARNING_DURATION
        /\ duration # WARNING_DURATION /\ duration' = WARNING_DURATION =>
            /\ duration = WARNING_DURATION - 1
            /\ showWarning' ]_vars

\* C6 witness: the warning is showing in a session that has reached 270 s.
C6_Witness == showWarning /\ Recording /\ duration = WARNING_DURATION

\* C7: a warning that is showing is always cleared eventually.
C7_WarningClears == showWarning ~> ~showWarning

\* C7 witness: the warning is showing after the session was paused.
C7_Witness == showWarning /\ Paused /\ warnTimeouts > 0

\* C8: when a device call of start() rejects, or the device is found not
\* recording after record() resolved, the invocation ends with the session
\* reset (isRecording false, isPaused false, elapsedSeconds 0) and exactly
\* one Recording Error alert.
C8_FailedStartResets ==
    [][\A c \in BagToSet(calls) :
         ( /\ c.op = "start"
           /\ c.res = "err" \/ (c.at = "wait" /\ ~devRecording)
           /\ calls' = Without(c) ) =>
         ( /\ ~isRecording' /\ ~isPaused' /\ ~timerOn'
           /\ duration' = 0
           /\ emitted' = <<"alert:RecordingError">> )]_vars

\* C8 witness: a start() has failed; the session is reset and the one alert
\* is out.
C8_Witness ==
    /\ emitted = <<"alert:RecordingError">>
    /\ ~isRecording /\ ~isPaused /\ duration = 0

\* C9: a tick that finds the device not recording stops the timer, forces
\* the session to Idle and reports an error to the caller.
C9_DesyncTickReportsError ==
    [][TickStep /\ ~devRecording =>
         /\ ~timerOn'
         /\ ~isRecording' /\ ~isPaused'
         /\ emitted' # <<>>]_vars

\* Number of startRecording invocations in flight.
StartsIn(bag) ==
    BagCardinality([c \in {x \in BagToSet(bag) : x.op = "start"} |-> bag[c]])

\* C10: every start() attempt requests the microphone permission first; a
\* denied request ends the invocation with the permission alert alone: no
\* device command goes out and session, artifact and device are unchanged.
C10_DeniedStartDoesNothing ==
    [][ /\ StartsIn(calls') > StartsIn(calls) =>
            /\ emitted' = <<"requestPermission">>
            /\ \E p \in Permissions :
                 calls' = With(calls, Call("start", "permission", p))
        /\ (/\ Pending(Call("start", "permission", "denied"))
            /\ CopiesIn(Call("start", "permission", "denied"), calls')
                 < CopiesIn(Call("start", "permission", "denied"), calls)) =>
            /\ calls' = Without(Call("start", "permission", "denied"))
            /\ emitted' = <<"alert:PermissionRequired">>
            /\ UNCHANGED <<isRecording, isPaused, duration, recordedUri,
                           effectVars, devRecording, devUri, allowsRecording>> ]_vars

\* C10 witness: the permission alert is out and nothing was started.
C10_Witness ==
    /\ emitted = <<"alert:PermissionRequired">>
    /\ Idle /\ ~devRecording /\ ~allowsRecording

\* An invocation suspended at c starts / stops waiting in this step.
Added(c) == CopiesIn(c, calls') > CopiesIn(c, calls)
Consumed(c) == CopiesIn(c, calls') < CopiesIn(c, calls)

\* A startRecording invocation reaches the await named at in this step.
StartReaches(at) == \E r \in Outcomes : Added(Call("start", at, r))

\* C11: within startRecording the device's record() is issued only by the
\* step that resumes from a resolved prepareToRecordAsync, prepare only after
\* a resolved setAudioModeAsync (directly, or through the stop of an existing
\* capture and its settle delay), and the mode only after a granted
\* permission; an invocation whose permission is denied or whose mode or
\* prepare call rejects ends in that step without issuing record().  The only
\* other issuer of record() is resumeRecording.
C11_RecordAfterModeAndPrepare ==
    [][ /\ StartReaches("record") => Consumed(Call("start", "prepare", "ok"))
        /\ StartReaches("prepare") =>
              \/ Consumed(Call("start", "mode", "ok"))
              \/ Consumed(Call("start", "settle", "ok"))
        /\ StartReaches("settle") => Consumed(Call("start", "stopExisting", "ok"))
        /\ StartReaches("stopExisting") => Consumed(Call("start", "mode", "ok"))
        /\ StartReaches("mode") => Consumed(Call("start", "permission", "granted"))
        /\ ( \/ Consumed(Call("start", "permission", "denied"))
             \/ Consumed(Call("start", "permission", "err"))
             \/ Consumed(Call("start", "mode", "err"))
             \/ Consumed(Call("start", "prepare", "err")) )
           => /\ StartsIn(calls') = StartsIn(calls) - 1
              /\ emitted' # <<"record">>
              /\ devRecording' = devRecording
        /\ emitted' = <<"record">> =>
              \/ StartReaches("record")
              \/ \E r \in Outcomes : Added(Call("resume", "record", r))
      ]_vars

\* record() has been issued and has started the capture: the mode was
\* configured for recording before it.
C11_Witness ==
    /\ Pending(Call("start", "record", "ok"))
    /\ devRecording /\ allowsRecording /\ emitted = <<"record">>

\* C12: a startRecording invocation that finds the device capturing stops it
\* and waits before going on, so that no startRecording invocation issues
\* prepareToRecordAsync or record() while the device is recording.
C12_NoPrepareOrRecordWhileCapturing ==
    [][StartReaches("prepare") \/ StartReaches("record") => ~devRecording]_vars

\* The step calls onSave.
CallsOnSave == Len(emitted') > 0 /\ emitted'[1] = "onSave"

\* C13: the step in which stopRecording resumes from the resolved device stop
\* reads the recorder's uri and ends the session (isRecording and isPaused
\* false) with the elapsed time as it is: with a uri the session is Stopped
\* and the artifact is that uri with that elapsed time; without a uri
\* recordedUri stays null.  No step calls onSave from a state without an
\* artifact.
C13_StopReadsUriAfterDeviceStop ==
    [][ /\ Consumed(Call("stop", "stop", "ok")) =>
              /\ ~isRecording' /\ ~isPaused'
              /\ duration' = duration
              /\ IF devUri # NoUri
                 THEN recordedUri' = devUri /\ Stopped'
                 ELSE recordedUri' = NoUri
        /\ CallsOnSave => recordedUri # NoUri
      ]_vars

\* A stop that found a uri: Stopped with the artifact and two seconds elapsed.
C13_Witness ==
    /\ Stopped /\ recordedUri = devUri /\ duration = 2
    /\ ~devRecording /\ calls = EmptyBag /\ emitted = <<>> /\ visible

\* C14: onSave is called only by the Save & Attach handler, pressed on a
\* Stopped session that has an elapsed time, and its arguments are the
\* session's artifact uri and elapsed time; no continuation of a stop and no
\* tick calls it.  While the session stays Stopped the elapsed time is the
\* one it stopped with, unless a failed start has reset it to 0, and then
\* Save & Attach calls nothing.
C14_OnSaveOnlyByExplicitSave ==
    [][ /\ CallsOnSave =>
              /\ HandleSave(TRUE)
              /\ Stopped /\ visible /\ duration > 0
              /\ emitted'[2] = recordedUri
              /\ emitted'[3] = ToString(duration)
              /\ calls' = calls
        /\ Stopped /\ Stopped' => duration' = duration \/ duration' = 0
        /\ (\E r \in Outcomes : Consumed(Call("stop", "stop", r))) => ~CallsOnSave
        /\ TickStep => ~CallsOnSave
      ]_vars

\* Save & Attach has handed over a two-second artifact and closed the recorder.
C14_Witness ==
    /\ emitted = <<"onSave", "file.m4a", "2", "onClose">>
    /\ ~visible /\ Idle /\ duration = 0

\* handleClose returns in this step: onClose is the last thing it calls.
ClosesNow == Len(emitted') > 0 /\ emitted'[Len(emitted')] = "onClose"

\* No interval created by the recorder is running.
NoInterval == ~timerOn /\ ~meteringOn /\ ~pollOn /\ monitors = 0

\* C15: whenever handleClose returns, a first time or again, the session is
\* Idle with no artifact and no elapsed time, the device is not recording
\* and no duration, metering or other interval of the recorder is running.
C15_CloseReachesTheSameEndState ==
    [][ClosesNow => Idle' /\ duration' = 0 /\ ~devRecording' /\ NoInterval']_vars

\* handleClose is invoked in this step from a render with isRecording true.
CancelsCapture ==
    \E r \in Outcomes :
      Added(Call("close", "stop", r)) \/ Added(Call("close", "stopPlaying", r))

\* The device stop awaited by handleClose settles in this step.
CancelResumes ==
    \E r \in Outcomes :
      Consumed(Call("close", "stop", r)) \/ Consumed(Call("close", "stopPlaying", r))

\* What a freshly opened recorder shows.
ShowsInitial == Idle /\ duration = 0 /\ ~showWarning

\* C16: a close pressed while the session is Recording or Paused first issues
\* the device stop; when that stop settles, resolved or rejected, the session
\* is reset to Idle with no artifact, no elapsed time, no warning and no
\* duration or metering interval, and onClose is called; no step of a close
\* calls onSave; and a recorder that is opened shows the initial state.
C16_CancelStopsThenResets ==
    [][ /\ CancelsCapture /\ emitted'[1] # "onSave" =>
              /\ isRecording /\ emitted' = <<"stop">>
              /\ UNCHANGED <<uiVars, effectVars, visible>>
        /\ CancelResumes =>
              /\ Idle' /\ duration' = 0 /\ ~showWarning'
              /\ ~timerOn' /\ ~meteringOn'
              /\ emitted' = <<"onClose">> /\ ~visible'
        /\ ~visible /\ visible' => ShowsInitial'
      ]_vars

\* The recorder is unmounted in this step.
Unmounts == mounted /\ ~mounted'

\* The step sends the command to a device.
Sends(command) == \E i \in DOMAIN emitted' : emitted'[i] = command

\* C17: the unmount of a recorder whose session is recording stops the
\* capture device, and the unmount of a recorder that is playing pauses the
\* player.
C17_UnmountReleasesDevices ==
    [][Unmounts =>
         /\ isRecording => Sends("stop") /\ ~devRecording'
         /\ isPlaying => Sends("playerPause") /\ ~devPlaying'
      ]_vars

\* C18: the duration interval and the metering interval run only while the
\* session is Recording (and not Paused), and once handleClose has returned
\* or the recorder has been unmounted none of the recorder's intervals runs:
\* duration timer, metering sampler, playback-state poll, completion monitor.
C18_NoIntervalOutlivesTeardown ==
    [][ /\ timerOn' \/ meteringOn' => Recording'
        /\ ClosesNow \/ Unmounts => NoInterval'
      ]_vars

\* Number of playRecording invocations in flight.
PlaysIn(bag) ==
    BagCardinality([c \in {x \in BagToSet(bag) : x.op = "play"} |-> bag[c]])

\* A playRecording invocation resumes in this step.
PlayResumes == \E r \in Outcomes : Consumed(Call("play", "mode", r))

\* C19: Record Again leaves the session Idle with no artifact and no elapsed
\* time and a player that it found playing paused; and a playRecording that
\* was pending when its artifact was discarded does not start the player when
\* it resumes.
C19_RecordAgainInvalidatesPlayback ==
    [][ /\ RecordAgain(TRUE) =>
              /\ Idle' /\ duration' = 0
              /\ isPlaying => ~devPlaying'
        /\ visible /\ recordedUri = NoUri /\ PlayResumes =>
              ~devPlaying' /\ ~isPlaying'
      ]_vars

\* The playback button of lines 702-705 is pressed in this step.
PressesToggle == PlayRecording(TRUE) \/ PausePlayback(TRUE)

\* C20: a press of the playback button while the playRecording of an earlier
\* press is still in flight pauses the player, so that play() is only issued
\* by a playRecording that is alone in flight.
C20_SecondTogglePauses ==
    [][ /\ PressesToggle /\ PlaysIn(calls) > 0 =>
              Sends("playerPause") /\ ~devPlaying'
        /\ Sends("play") => PlaysIn(calls) = 1
      ]_vars

\* C21: playRecording first seeks to 0 and asks for the playback mode
\* (allowsRecording false) in the step of the press; play() is issued only by
\* the step that resumes from the resolved mode call; when the mode call
\* rejects, play() is not issued, the player is left as it is and isPlaying
\* is false.
C21_SeekThenModeThenPlay ==
    [][ /\ (\E r \in Outcomes : Added(Call("play", "mode", r))) =>
              emitted' = <<"seekTo", "setAudioMode">>
        /\ Added(Call("play", "mode", "ok")) => ~allowsRecording'
        /\ Sends("play") => Consumed(Call("play", "mode", "ok"))
        /\ Consumed(Call("play", "mode", "err")) =>
              /\ ~Sends("play")
              /\ devPlaying' = devPlaying
              /\ ~isPlaying'
      ]_vars

\* play() has been issued after the playback mode was set.
C21_Witness ==
    /\ emitted = <<"play">> /\ devPlaying /\ isPlaying
    /\ ~allowsRecording /\ Stopped /\ visible

\* C22: a poll that finds audioPlayer.playing different from isPlaying sets
\* isPlaying to the device's value and touches nothing else; a poll that
\* finds them equal is no step at all; so, while the recorder is mounted, a
\* difference between the two does not last: isPlaying comes to equal the
\* device's value.
C22_PollTracksThePlayer ==
    /\ [][PlaybackPoll =>
            /\ isPlaying # devPlaying
            /\ isPlaying' = devPlaying
            /\ UNCHANGED <<visible, uiVars, restVars, effectVars, devVars, calls>>
         ]_vars
    /\ (mounted /\ isPlaying # devPlaying) ~> (~mounted \/ isPlaying = devPlaying)

\* Playback has ended on its own and the poll has not yet noticed.
C22_Witness ==
    /\ isPlaying /\ ~devPlaying /\ pollOn /\ mounted
    /\ Stopped /\ visible /\ emitted = <<>>

\* The device call awaited by pauseRecording, resumeRecording or
\* stopRecording rejects and the handler resumes in its catch in this step.
ControlThrows ==
    \/ Consumed(Call("pause", "pause", "err"))
    \/ Consumed(Call("resume", "record", "err"))
    \/ Consumed(Call("stop", "stop", "err"))

\* C23: when the device call of pause, resume or stop rejects, the handler
\* reports an error to the user and leaves the session Idle.
C23_ControlFailureResets ==
    [][ControlThrows => emitted' # <<>> /\ Idle']_vars

\* C24: the sampler takes a sample only while the session is Recording, and
\* in every state that is not Recording (after pause, stop, cancel or a
\* desync) no sampler exists and the audio level is 0.
C24_SamplerOnlyWhileRecording ==
    [][ /\ MeteringSample => Recording
        /\ audioLevel' # audioLevel /\ audioLevel' # 0 => Recording /\ Recording'
        /\ ~Recording' => audioLevel' = 0 /\ ~meteringOn'
      ]_vars

\* The session is paused while the microphone hears -40 dB: the level shown
\* is 0 all the same.
C24_Witness ==
    /\ Paused /\ devRecording = FALSE /\ devMetering = <<-40>>
    /\ audioLevel = 0 /\ ~meteringOn /\ calls = EmptyBag

\* C25: a sample sets the level to clamp((db + 160) / 160, 0, 1): within
\* [0, 1], 0 at -160 dB and below, 1 at 0 dB and above, 0.75 at -40 dB, and 0
\* when the reading is missing.
C25_LevelIsClampedNormalisation ==
    [][MeteringSample =>
          /\ audioLevel' \in 0..METER_RANGE
          /\ devMetering = <<>> => audioLevel' = 0
          /\ devMetering # <<>> =>
                LET db == devMetering[1] IN
                /\ db <= -METER_RANGE => audioLevel' = 0
                /\ db >= 0 => audioLevel' = METER_RANGE
                /\ db > -METER_RANGE /\ db < 0 => audioLevel' = db + METER_RANGE
                /\ db = -40 => 4 * audioLevel' = 3 * METER_RANGE
      ]_vars

\* A sample of -40 dB has set the level to three quarters.
C25_Witness ==
    /\ Recording /\ meteringOn /\ devMetering = <<-40>>
    /\ 4 * audioLevel = 3 * METER_RANGE

\* A startRecording invocation passes its verification in this step.
StartSucceeds == Ended(Call("start", "wait", "ok")) /\ devRecording

\* C26: a start() that succeeds leaves the session Recording with
\* elapsedSeconds 0 and no artifact; every tick that finds the device
\* recording, below the warning threshold, adds exactly one second and leaves
\* the session Recording; and nothing else moves the elapsed seconds of a
\* session that stays in recording.  So k ticks after the start, with no
\* user action in between, elapsedSeconds is k.
C26_TicksCountFromZero ==
    [][ /\ StartSucceeds =>
            /\ Recording' /\ timerOn'
            /\ duration' = 0
            /\ recordedUri' = NoUri
        /\ TickStep /\ devRecording /\ duration + 1 < WARNING_DURATION =>
            /\ duration' = duration + 1
            /\ Recording' /\ timerOn'
            /\ emitted' = <<>>
            /\ UNCHANGED <<recordedUri, showWarning, devVars, calls>>
        /\ isRecording /\ isRecording' /\ duration' # duration =>
            TickStep \/ StartSucceeds
      ]_vars

\* Scenario A: five seconds into a recording, nothing pending.
C26_Witness ==
    /\ Recording /\ timerOn /\ devRecording
    /\ duration = 5 /\ recordedUri = NoUri /\ calls = EmptyBag

\* handleSave hands an entry to the api in this step.
SavesEntry == journal.request = <<>> /\ journal'.request # <<>>

\* C27: when the journal entry is saved while a recording is attached, the
\* entry handed to createJournalEntry / updateJournalEntry carries the
\* attachment's uri and duration.
C27_SavedEntryCarriesAttachment ==
    [][SavesEntry /\ journal.audioAttachment # <<>> =>
          LET data == journal'.request[1].data
              attachment == journal.audioAttachment[1] IN
          /\ {"audioUri", "audioDuration"} \subseteq DOMAIN data
          /\ data.audioUri = attachment.uri
          /\ data.audioDuration = attachment.duration
      ]_vars

\* C28: in every reachable state a paused session is a recording session:
\* isPaused implies isRecording, whatever a pause() interleaves with.
C28_PausedImpliesRecording == isPaused => isRecording

\* The last startRecording invocation in flight completes in this step.
StartsComplete == StartsIn(calls) > 0 /\ StartsIn(calls') = 0

\* C29: when the last of the startRecording invocations in flight completes,
\* the session is Recording exactly if the device is recording, and a
\* Recording Error alert is not shown for a capture that is running.
C29_OverlappingStartsAgree ==
    [][StartsComplete =>
          /\ Recording' <=> devRecording'
          /\ emitted' = <<"alert:RecordingError">> => ~devRecording'
      ]_vars

\* The timer callback invokes stopRecording in this step.
AutoStops == TickStep /\ emitted' = <<"stop">>

\* C30: the timer invokes stop() at most once per session: a tick never
\* invokes it while an earlier invocation of it is still awaiting the
\* device, whether that call will resolve or reject.
C30_AutoStopAtMostOnce ==
    [][AutoStops => \A r \in Outcomes : ~Pending(Call("stop", "stop", r))]_vars

\* C31: elapsedSeconds never exceeds MAX_DURATION - 1: the tick that would
\* make it MAX_DURATION keeps the value and invokes stop instead, and a save
\* hands over the elapsed seconds as they are, MAX_DURATION - 1 at most.
C31_ElapsedStaysBelowCap ==
    [][ /\ duration <= MAX_DURATION - 1 /\ duration' <= MAX_DURATION - 1
        /\ TickStep /\ devRecording /\ duration = MAX_DURATION - 1 =>
             duration' = duration /\ emitted' = <<"stop">>
        /\ CallsOnSave =>
             /\ duration <= MAX_DURATION - 1
             /\ emitted'[3] = ToString(duration)
      ]_vars

\* A recording that ran into the cap has just been saved with 299 seconds.
C31_Witness ==
    /\ Len(emitted) > 0
    /\ emitted[1] = "onSave" /\ emitted[3] = ToString(MAX_DURATION - 1)
    /\ ~visible

\* C32: onSave goes out only from a state with an artifact and elapsed
\* seconds above 0, with exactly those two values; from a recording stopped
\* at 0 seconds no step calls onSave, so Save & Attach neither hands the
\* recording over nor closes the recorder.
C32_OnSaveNeedsUriAndDuration ==
    [][ /\ CallsOnSave =>
            /\ recordedUri # NoUri /\ duration > 0
            /\ emitted'[2] = recordedUri /\ emitted'[2] # NoUri
            /\ emitted'[3] = ToString(duration) /\ emitted'[3] # ToString(0)
        /\ duration = 0 /\ ~visible' /\ visible => ~CallsOnSave
      ]_vars

\* A recording stopped before its first tick is on the playback screen.
C32_Witness ==
    /\ Stopped /\ duration = 0 /\ visible
    /\ calls = EmptyBag /\ emitted = <<>>

\* C33: whenever record() is sent to the capture device, by startRecording
\* or by resumeRecording, the audio mode last configured allows recording.
C33_RecordOnlyInRecordingMode ==
    [][Sends("record") => allowsRecording]_vars

\* C34: whenever the warning is active the session has run for at least
\* WARNING_DURATION seconds; it is never active in a session whose elapsed
\* seconds have been reset to 0.
C34_WarningOnlyNearCap == showWarning => duration >= WARNING_DURATION

\* The user's pause: togglePlayback pressed in a render with isPlaying true.
UserPauses == player.mounted /\ player.isPlaying /\ Sends("player.pause")

\* C35: in AudioPlayer a pause reaches the player only in the step of an
\* explicit user pause or of the unmount: the cleanup effect does not pause
\* while the component stays mounted, and a playback that play() has just
\* asked for is not taken back by anything else.
C35_PauseOnlyByUserOrUnmount ==
    [][ /\ Sends("cleanup.pause") \/ Sends("player.pause") =>
            UserPauses \/ ~player'.mounted
        /\ player.status = "starting" /\ player'.status = "idle" =>
            UserPauses \/ ~player'.mounted
      ]_vars

\* The editor is closed or shown in this step.
EditorTurns == journal'.visible # journal.visible

\* C36: the attachment belongs to one editing session: when the editor is
\* closed, and when it is shown for an entry, no attachment is held.
C36_AttachmentClearedWithEditor ==
    [][EditorTurns => journal'.audioAttachment = <<>>]_vars

====
